---- MODULE Spec2Model ----
(***************************************************************************)
(* Model of the mouse-video-compressor backend:                            *)
(*   - AdaptiveCompressor (compression/adaptive_compressor.py): the job    *)
(*     record, the worker thread and cancel_job;                           *)
(*   - run_compression_job and the cancel endpoint (app.py);               *)
(*   - ProgressTracker (utils/progress_tracker.py): the event queue, the   *)
(*     dispatcher thread, the per-job history and the subscribers.         *)
(* Percentages are fixed-point numbers: a percent x is stored as x*PScale. *)
(***************************************************************************)
EXTENDS Integers, Sequences, FiniteSets, TLC

\* ------------------------------------------------------------------ bounds
MaxSegments == 2      \* most activity segments of an input of SpecCompressor
AppMaxSegments == 1   \* most activity segments of an input of Spec
MaxCancels == 1       \* cancel requests issued per job
MaxBusEvents == 2     \* tracker API calls made by the producers of SpecBus
MaxSubscriptions == 2 \* subscribe and unsubscribe calls made in SpecBus
MaxRuns == 3          \* stretches of equal motion intensity in an analysed video
MaxHistoryCalls == 103 \* tracker calls made for the long job of SpecHistory
MaxFrames == 2        \* frames of a video analysed in SpecDetector
MaxSpeedSnapshots == 3 \* snapshots added to the history of SpecSpeed
MaxTime == 3          \* clock ticks in SpecSpeed

\* ------------------------------------------------------- program constants
max_snapshots == 100

PScale == 3 * 4 * 5
P(x) == x * PScale

JobIds == {"job1", "job2"}          \* job ids known to the progress tracker
AppJobs == {"job1"}                 \* job ids submitted to the compressor
Callbacks == {"cbA", "cbB"}         \* subscriber callbacks
AnalyzerPercents == {50}       \* percents the analyzer reports
EncoderPercents == {50}        \* percents the encoder reports
Requests == {"ok", "unknown_profile", "missing_input"}

Terminal == {"completed", "failed", "cancelled"}
TerminalEvents == {"completed", "error", "cancelled"}

VARIABLES
  \* AdaptiveCompressor
  job,                \* the CompressionJob object of each job id
  active_jobs,        \* keys of self.active_jobs
  progress_callbacks, \* keys of self.progress_callbacks
  files,              \* output file and temporary segment files of each job
  worker,             \* position and locals of each job's worker thread
  \* app.py
  task,               \* the client of each job id: its request, the number
                      \* of activity segments of its input, and the position
                      \* of run_compression_job (or of the direct client)
  cancel,             \* the cancel request of each job id
  \* what happened to each job so far, used to state the properties
  ghost,
  \* ProgressTracker
  event_queue, hist_events, hist_snapshots, in_history,
  tracker_active, tracker_pct, subscribers, global_subscribers,
  \* observations of the bus
  received,           \* the events each callback was called with, in order
  submitted,          \* every event put on the queue, in order
  bus_calls,          \* number of producer calls so far
  sub_calls,          \* number of subscribe and unsubscribe calls so far
  raise_passed,       \* in the latest dispatch a callback raised and another
                      \* callback was due after it
  \* MotionDetector.analyze_video
  source,             \* the video file handed to analyze_video
  analysis,           \* position and locals of analyze_video, and its result
  \* CompressionProfileManager
  custom_profiles,    \* self.custom_profiles: name -> profile (or NoProfile)
  retrieved,          \* outcome of the latest get_profile call
  \* the threads of the progress tracker, step by step
  lock_owner,         \* the thread that holds self._lock
  dispatcher,         \* position of _event_worker inside _process_event
  producer,           \* position of each thread that calls the tracker
  \* JobUpdateRequest
  update,             \* the stored status of a job and the latest update
                      \* request made for it, with the validator's outcome
  \* one MotionDetector instance and the analyze_video calls made on it
  bg_subtractor,      \* the background model of self.bg_subtractor
  run,                \* position, locals and result of each analyze_video call
  overlap,            \* some call started while another was in progress
  \* one ProgressHistory with the time of its snapshots
  snapshots,          \* self.snapshots: percentage and timestamp of each
  now,                \* what datetime.now() returns
  \* _notify_subscribers, one callback at a time
  notify              \* the event in dispatch, the list being iterated, the
                      \* position of the list iterator, the running callback

compressorVars == <<job, active_jobs, progress_callbacks, files, worker, task,
                    cancel, ghost>>
trackerVars == <<event_queue, hist_events, hist_snapshots, in_history,
                 tracker_active, tracker_pct, submitted>>
subVars == <<subscribers, global_subscribers>>
obsVars == <<received, bus_calls, sub_calls, raise_passed>>
busVars == <<trackerVars, subVars, obsVars>>
analysisVars == <<source, analysis>>
\* the components that the compressor, the application and the bus leave alone
registryVars == <<custom_profiles, retrieved>>
lockVars == <<lock_owner, dispatcher, producer>>
requestVars == <<update>>
\* the components added for the models, the detector and the dispatch loop
detectorVars == <<bg_subtractor, run, overlap>>
speedVars == <<snapshots, now>>
notifyVars == <<notify>>
sideVars == <<requestVars, detectorVars, speedVars, notifyVars>>
restVars == <<analysisVars, registryVars, lockVars, sideVars>>
vars == <<compressorVars, busVars, restVars>>

Min(a, b) == IF a < b THEN a ELSE b
Max(a, b) == IF a > b THEN a ELSE b

\* ============================================================ ProgressTracker

\* deque(maxlen=max_snapshots).append
DequeAppendUnbounded(d, x) == Append(d, x)
DequeAppend(d, x) ==
  IF Len(d) >= max_snapshots THEN Append(Tail(d), x) ELSE Append(d, x)

\* ProgressTracker.get_current_percentage
get_current_percentage(j) ==
  IF j \in tracker_active THEN tracker_pct[j]
  ELSE IF j \in in_history /\ Len(hist_snapshots[j]) > 0
       THEN hist_snapshots[j][Len(hist_snapshots[j])].pct
       ELSE 0

\* a ProgressEvent; id is the position of its put in the order of all puts
Event(j, t, p) == [job |-> j, type |-> t, pct |-> p, id |-> Len(submitted) + 1]

\* self._event_queue.put(event)
Put(e) ==
  /\ event_queue' = Append(event_queue, e)
  /\ submitted' = Append(submitted, e)

\* ProgressTracker.register_job
register_job(j) ==
  /\ Put(Event(j, "started", 0))
  /\ UNCHANGED <<hist_events, hist_snapshots, in_history, tracker_active, tracker_pct>>

\* ProgressTracker.update_progress
update_progress(j, p) ==
  LET pct == Max(0, Min(P(100), p)) IN
  /\ Put(Event(j, "progress", pct))
  /\ tracker_pct' = IF j \in tracker_active
                    THEN [tracker_pct EXCEPT ![j] = pct] ELSE tracker_pct
  /\ UNCHANGED <<hist_events, hist_snapshots, in_history, tracker_active>>

\* ProgressTracker.change_stage
change_stage(j) ==
  /\ Put(Event(j, "stage_changed", get_current_percentage(j)))
  /\ UNCHANGED <<hist_events, hist_snapshots, in_history, tracker_active, tracker_pct>>

\* ProgressTracker.complete_job
complete_job(j) ==
  /\ Put(Event(j, "completed", P(100)))
  /\ UNCHANGED <<hist_events, hist_snapshots, in_history, tracker_active, tracker_pct>>

\* ProgressTracker.fail_job
fail_job(j) ==
  /\ Put(Event(j, "error", get_current_percentage(j)))
  /\ UNCHANGED <<hist_events, hist_snapshots, in_history, tracker_active, tracker_pct>>

\* ProgressTracker.cancel_job
tracker_cancel_job(j) ==
  /\ Put(Event(j, "cancelled", get_current_percentage(j)))
  /\ UNCHANGED <<hist_events, hist_snapshots, in_history, tracker_active, tracker_pct>>

\* queue.Queue.get: the index of the element the dispatcher takes
QueueGetLifo(q) == Len(q)
QueueGet(q) == 1

RemoveAt(q, i) == SubSeq(q, 1, i - 1) \o SubSeq(q, i + 1, Len(q))

\* _notify_subscribers: what the loop does after a callback raised
AfterRaiseAbort == "abort"
AfterRaise == "continue"

\* the callbacks of list cbs, from position i on, that are called when the
\* callbacks in R raise
RECURSIVE Called(_, _, _)
Called(cbs, i, R) ==
  IF i > Len(cbs) THEN <<>>
  ELSE IF cbs[i] \in R /\ AfterRaise = "abort" THEN <<cbs[i]>>
       ELSE <<cbs[i]>> \o Called(cbs, i + 1, R)

\* TRUE iff the loop over cbs ran to its end
Finished(cbs, R) ==
  AfterRaise = "continue" \/ \A i \in 1..Len(cbs) : cbs[i] \notin R

\* _notify_subscribers: the sequence of callbacks invoked for event e
Notified(e, R) ==
  Called(subscribers[e.job], 1, R)
    \o (IF Finished(subscribers[e.job], R)
        THEN Called(global_subscribers, 1, R) ELSE <<>>)

RECURSIVE Deliver(_, _, _)
Deliver(rcv, called, e) ==
  IF called = <<>> THEN rcv
  ELSE Deliver([rcv EXCEPT ![Head(called)] = Append(@, e)], Tail(called), e)

\* _process_event up to the notification: the event enters the history of
\* its job and the table of active jobs is updated
RecordEvent(e) ==
  LET j == e.job IN
  /\ in_history' = in_history \cup {j}
  /\ hist_events' = [hist_events EXCEPT ![j] = DequeAppend(@, e)]
  /\ hist_snapshots' =
       IF e.type = "progress"
       THEN [hist_snapshots EXCEPT ![j] = DequeAppend(@, [pct |-> e.pct, id |-> e.id])]
       ELSE hist_snapshots
  /\ tracker_active' =
       IF e.type = "started" THEN tracker_active \cup {j}
       ELSE IF e.type \in TerminalEvents THEN tracker_active \ {j}
       ELSE tracker_active
  /\ tracker_pct' =
       IF e.type = "started" THEN [tracker_pct EXCEPT ![j] = e.pct]
       ELSE tracker_pct

\* TRUE iff a callback of R stands in list l before the last position
RaisedBeforeLast(l, R) == \E k \in 1..(Len(l) - 1) : l[k] \in R

\* _event_worker / _process_event: the dispatcher takes one event off the
\* queue, records it and notifies the subscribers; R = callbacks that raise
ProcessEvent(R) ==
  /\ event_queue # <<>>
  /\ LET k == QueueGet(event_queue)
         e == event_queue[k]
         j == e.job
     IN
     /\ event_queue' = RemoveAt(event_queue, k)
     /\ RecordEvent(e)
     /\ received' = Deliver(received, Notified(e, R), e)
     /\ raise_passed' = RaisedBeforeLast(subscribers[j] \o global_subscribers, R)
  /\ UNCHANGED <<submitted, subVars, bus_calls, sub_calls>>

\* ProgressTracker.subscribe_to_job
subscribe_to_job(j, c) ==
  /\ subscribers' = [subscribers EXCEPT ![j] = Append(@, c)]
  /\ UNCHANGED global_subscribers

\* ProgressTracker.subscribe_to_all
subscribe_to_all(c) ==
  /\ global_subscribers' = Append(global_subscribers, c)
  /\ UNCHANGED subscribers

\* list.remove: drops the first occurrence of c
RECURSIVE ListRemove(_, _)
ListRemove(l, c) ==
  IF l = <<>> THEN <<>>
  ELSE IF Head(l) = c THEN Tail(l)
       ELSE <<Head(l)>> \o ListRemove(Tail(l), c)

\* ProgressTracker.unsubscribe_from_job
unsubscribe_from_job(j, c) ==
  /\ subscribers' = [subscribers EXCEPT ![j] = ListRemove(@, c)]
  /\ UNCHANGED global_subscribers

\* ProgressTracker.unsubscribe_from_all
unsubscribe_from_all(c) ==
  /\ global_subscribers' = ListRemove(global_subscribers, c)
  /\ UNCHANGED subscribers

\* ------------------------------------ _notify_subscribers, callback by callback

NotifyIdle == notify = [pc |-> "idle", event |-> [job |-> "", type |-> "", pct |-> 0, id |-> 0],
                        list |-> "job", i |-> 0, current |-> ""]

\* the list object the for loop of _notify_subscribers is iterating
IteratedList ==
  IF notify.list = "job" THEN subscribers[notify.event.job] ELSE global_subscribers

NotifyUnchanged ==
  UNCHANGED <<compressorVars, analysisVars, registryVars, lockVars,
              requestVars, detectorVars, speedVars, raise_passed>>

\* a producer registers the job: the started event is put on the queue
N_Produce ==
  /\ bus_calls < MaxBusEvents
  /\ bus_calls' = bus_calls + 1
  /\ register_job("job1")
  /\ UNCHANGED <<subVars, received, sub_calls, notify>>
  /\ NotifyUnchanged

\* _event_worker takes an event; _process_event records it and enters
\* _notify_subscribers: the loop over self.subscribers.get(job_id, []) starts
N_Begin ==
  /\ notify.pc \in {"idle", "done"}
  /\ event_queue # <<>>
  /\ LET e == Head(event_queue) IN
       /\ event_queue' = Tail(event_queue)
       /\ RecordEvent(e)
       /\ notify' = [pc |-> "loop", event |-> e, list |-> "job", i |-> 0,
                     current |-> ""]
  /\ UNCHANGED <<submitted, subVars, received, bus_calls, sub_calls>>
  /\ NotifyUnchanged

\* the for statement asks the list iterator for the next callback: the
\* iterator holds an index into the list as it is now; callback(event) is
\* entered
N_Next ==
  /\ notify.pc = "loop"
  /\ notify.i < Len(IteratedList)
  /\ LET c == IteratedList[notify.i + 1] IN
       /\ received' = [received EXCEPT ![c] = Append(@, notify.event)]
       /\ notify' = [notify EXCEPT !.pc = "in_callback", !.i = @ + 1, !.current = c]
  /\ UNCHANGED <<trackerVars, subVars, bus_calls, sub_calls>>
  /\ NotifyUnchanged

\* the iterator is exhausted: the loop over the global subscribers starts, or
\* _notify_subscribers returns
N_EndOfList ==
  /\ notify.pc = "loop"
  /\ notify.i >= Len(IteratedList)
  /\ notify' = IF notify.list = "job"
                THEN [notify EXCEPT !.list = "global", !.i = 0, !.current = ""]
                ELSE [notify EXCEPT !.pc = "done", !.current = ""]
  /\ UNCHANGED <<trackerVars, subVars, received, bus_calls, sub_calls>>
  /\ NotifyUnchanged

\* the running callback calls unsubscribe_from_job(event.job_id, c), for
\* itself or for another callback (the RLock is re-entered by its own thread)
N_UnsubscribeFromJob(c) ==
  /\ notify.pc = "in_callback"
  /\ \E k \in 1..Len(subscribers[notify.event.job]) :
       subscribers[notify.event.job][k] = c
  /\ unsubscribe_from_job(notify.event.job, c)
  /\ UNCHANGED <<trackerVars, received, bus_calls, sub_calls, notify>>
  /\ NotifyUnchanged

\* the running callback calls unsubscribe_from_all(c)
N_UnsubscribeFromAll(c) ==
  /\ notify.pc = "in_callback"
  /\ \E k \in 1..Len(global_subscribers) : global_subscribers[k] = c
  /\ unsubscribe_from_all(c)
  /\ UNCHANGED <<trackerVars, received, bus_calls, sub_calls, notify>>
  /\ NotifyUnchanged

\* the callback returns (or raises, which the loop catches)
N_Return ==
  /\ notify.pc = "in_callback"
  /\ notify' = [notify EXCEPT !.pc = "loop"]
  /\ UNCHANGED <<trackerVars, subVars, received, bus_calls, sub_calls>>
  /\ NotifyUnchanged

\* ========================================================= AdaptiveCompressor

NoJob == [status |-> "none", progress |-> 0, current_segment |-> 0,
          total_segments |-> 0, error_message |-> FALSE,
          compressed_size_mb |-> 0]

\* CompressionJob(...): the dataclass defaults
NewJob == [NoJob EXCEPT !.status = "pending"]

\* segment_progress_start of segment i (0-based) of n
SegmentProgressStart(i, n) == P(20) + (i * P(70)) \div n
\* segment_progress_end of segment i (0-based) of n
SegmentProgressEnd(i, n) == P(20) + ((i + 1) * P(70)) \div n

\* the outcomes a call of the job's progress callback can have: TRUE = raises
CallbackOutcomes(j) ==
  IF j \in active_jobs /\ j \in progress_callbacks /\ task[j].client = "direct"
  THEN {TRUE, FALSE} ELSE {FALSE}

\* the progress callback of job j returns normally: the callback that
\* run_compression_job installs forwards to the tracker
CallbackReturns(j, p) ==
  IF task[j].client = "app" THEN update_progress(j, p) ELSE UNCHANGED trackerVars

\* AdaptiveCompressor._update_progress(job_id, p, ...); r = the callback raises
UpdateProgress(j, p, r) ==
  /\ job' = IF j \in active_jobs THEN [job EXCEPT ![j].progress = p] ELSE job
  /\ IF j \in active_jobs /\ j \in progress_callbacks /\ ~r
     THEN CallbackReturns(j, p)
     ELSE UNCHANGED trackerVars
  /\ ghost' = IF r THEN [ghost EXCEPT ![j].cb_raised = TRUE] ELSE ghost

\* leaving the TemporaryDirectory context manager
TempKept(f) == f
TempCleaned(f) == [f EXCEPT !.temp_dir = FALSE, !.segments = 0]

WorkerUnchanged == UNCHANGED <<active_jobs, progress_callbacks, task, cancel,
                               subVars, obsVars, restVars>>

\* a step of the worker that raised: record it and enter the except block
StepFailed(j) ==
  ghost' = [ghost EXCEPT ![j].step_failed = TRUE,
                         ![j].progress_before_failure = job[j].progress]

\* _compress_video_worker: job.status = "running"
W_SetRunning(j) ==
  /\ worker[j].pc = "w_start"
  /\ job' = [job EXCEPT ![j].status = "running"]
  /\ worker' = [worker EXCEPT ![j].pc = "w_p0"]
  /\ UNCHANGED <<files, ghost, trackerVars>>
  /\ WorkerUnchanged

\* _compress_video_worker: _update_progress(job_id, 0.0, ...)
W_Progress0(j) ==
  /\ worker[j].pc = "w_p0"
  /\ \E r \in CallbackOutcomes(j) :
       /\ UpdateProgress(j, 0, r)
       /\ worker' = [worker EXCEPT ![j].pc = IF r THEN "h_status" ELSE "w_analyze"]
  /\ UNCHANGED files
  /\ WorkerUnchanged

\* motion_progress_callback(progress, stage): the value it passes on is
\* progress * 0.2 / 100
motion_progress_callback(p) == (P(p) * 2) \div 1000

\* analyze_video: progress_callback(progress, "motion_analysis") every 30
\* frames, forwarded by motion_progress_callback
W_AnalyzeProgress(j, p) ==
  /\ worker[j].pc = "w_analyze"
  /\ p > worker[j].apct
  /\ \E r \in CallbackOutcomes(j) :
       /\ UpdateProgress(j, motion_progress_callback(p), r)
       /\ worker' = [worker EXCEPT ![j].pc = IF r THEN "h_status" ELSE "w_analyze",
                                   ![j].apct = p]
  /\ UNCHANGED files
  /\ WorkerUnchanged

\* analyze_video returns the activity segments of the input
W_AnalyzeDone(j) ==
  /\ worker[j].pc = "w_analyze"
  /\ job' = [job EXCEPT ![j].total_segments = task[j].segments]
  /\ worker' = [worker EXCEPT ![j].pc = "w_p20"]
  /\ UNCHANGED <<files, ghost, trackerVars>>
  /\ WorkerUnchanged

\* analyze_video raises
W_AnalyzeFail(j) ==
  /\ worker[j].pc = "w_analyze"
  /\ StepFailed(j)
  /\ worker' = [worker EXCEPT ![j].pc = "h_status"]
  /\ UNCHANGED <<job, files, trackerVars>>
  /\ WorkerUnchanged

\* _compress_video_worker: _update_progress(job_id, 20.0, ...)
W_Progress20(j) ==
  /\ worker[j].pc = "w_p20"
  /\ \E r \in CallbackOutcomes(j) :
       /\ UpdateProgress(j, P(20), r)
       /\ worker' = [worker EXCEPT ![j].pc = IF r THEN "h_status" ELSE "w_compress"]
  /\ UNCHANGED files
  /\ WorkerUnchanged

\* _compress_single_segment: the encoder is started on the output path
W_SingleStart(j) ==
  /\ worker[j].pc = "w_compress"
  /\ job[j].total_segments = 0
  /\ files' = [files EXCEPT ![j].output = TRUE]
  /\ worker' = [worker EXCEPT ![j].pc = "w_single"]
  /\ UNCHANGED <<job, ghost, trackerVars>>
  /\ WorkerUnchanged

\* _compress_single_segment: the encoder exits with code 0
W_SingleDone(j) ==
  /\ worker[j].pc = "w_single"
  /\ worker' = [worker EXCEPT ![j].pc = "w_completed"]
  /\ UNCHANGED <<job, files, ghost, trackerVars>>
  /\ WorkerUnchanged

\* _compress_single_segment: the encoder exits with a nonzero code
W_SingleFail(j) ==
  /\ worker[j].pc = "w_single"
  /\ StepFailed(j)
  /\ worker' = [worker EXCEPT ![j].pc = "h_status"]
  /\ UNCHANGED <<job, files, trackerVars>>
  /\ WorkerUnchanged

\* _compress_adaptive_segments: with tempfile.TemporaryDirectory()
W_EnterAdaptive(j) ==
  /\ worker[j].pc = "w_compress"
  /\ job[j].total_segments > 0
  /\ files' = [files EXCEPT ![j].temp_dir = TRUE]
  /\ worker' = [worker EXCEPT ![j].pc = "w_seg_begin", ![j].i = 0]
  /\ UNCHANGED <<job, ghost, trackerVars>>
  /\ WorkerUnchanged

\* loop body, first half: job.current_segment = i + 1 and
\* _update_progress(job_id, segment_progress_start, ...)
W_SegBegin(j) ==
  /\ worker[j].pc = "w_seg_begin"
  /\ \E r \in CallbackOutcomes(j) :
       LET i == worker[j].i
           p == SegmentProgressStart(i, job[j].total_segments)
       IN
       /\ job' = IF j \in active_jobs
                 THEN [job EXCEPT ![j].current_segment = i + 1, ![j].progress = p]
                 ELSE [job EXCEPT ![j].current_segment = i + 1]
       /\ IF j \in active_jobs /\ j \in progress_callbacks /\ ~r
          THEN CallbackReturns(j, p)
          ELSE UNCHANGED trackerVars
       /\ ghost' = IF r THEN [ghost EXCEPT ![j].cb_raised = TRUE] ELSE ghost
       /\ worker' = [worker EXCEPT ![j].pc = IF r THEN "h_status" ELSE "w_enc_start"]
       /\ files' = IF r THEN [files EXCEPT ![j] = TempCleaned(@)] ELSE files
  /\ WorkerUnchanged

\* _compress_video_segment: the encoder process of segment i is started
W_EncodeStart(j) ==
  /\ worker[j].pc = "w_enc_start"
  /\ worker' = [worker EXCEPT ![j].pc = "w_encoding", ![j].epct = 0]
  /\ UNCHANGED <<job, files, ghost, trackerVars>>
  /\ WorkerUnchanged

\* _run_ffmpeg_with_progress: progress_callback(progress) inside try/except;
\* an exception of the callback is swallowed
W_EncodeProgress(j, p) ==
  /\ worker[j].pc = "w_encoding"
  /\ p > worker[j].epct
  /\ \E r \in CallbackOutcomes(j) :
       LET i == worker[j].i
           n == job[j].total_segments
           s == SegmentProgressStart(i, n)
           e == SegmentProgressEnd(i, n)
       IN UpdateProgress(j, s + (p * (e - s)) \div 100, r)
  /\ worker' = [worker EXCEPT ![j].epct = p]
  /\ UNCHANGED files
  /\ WorkerUnchanged

\* the encoder of segment i exits with code 0; segment_files.append
W_EncodeDone(j) ==
  /\ worker[j].pc = "w_encoding"
  /\ files' = [files EXCEPT ![j].segments = @ + 1]
  /\ worker' = [worker EXCEPT
                  ![j].i = @ + 1,
                  ![j].pc = IF worker[j].i + 1 < job[j].total_segments
                            THEN "w_seg_begin" ELSE "w_p90"]
  /\ UNCHANGED <<job, ghost, trackerVars>>
  /\ WorkerUnchanged

\* the encoder of segment i exits with a nonzero code: RuntimeError
W_EncodeFail(j) ==
  /\ worker[j].pc = "w_encoding"
  /\ StepFailed(j)
  /\ files' = [files EXCEPT ![j] = TempCleaned(@)]
  /\ worker' = [worker EXCEPT ![j].pc = "h_status"]
  /\ UNCHANGED <<job, trackerVars>>
  /\ WorkerUnchanged

\* _compress_adaptive_segments: _update_progress(job_id, 90.0, ...)
W_Progress90(j) ==
  /\ worker[j].pc = "w_p90"
  /\ \E r \in CallbackOutcomes(j) :
       /\ UpdateProgress(j, P(90), r)
       /\ worker' = [worker EXCEPT ![j].pc = IF r THEN "h_status" ELSE "w_concat_start"]
       /\ files' = IF r THEN [files EXCEPT ![j] = TempCleaned(@)] ELSE files
  /\ WorkerUnchanged

\* _concatenate_segments: the concat process is started on the output path
W_ConcatStart(j) ==
  /\ worker[j].pc = "w_concat_start"
  /\ files' = [files EXCEPT ![j].output = TRUE]
  /\ worker' = [worker EXCEPT ![j].pc = "w_concat"]
  /\ UNCHANGED <<job, ghost, trackerVars>>
  /\ WorkerUnchanged

\* _concatenate_segments: returncode 0; the temporary directory is left
W_ConcatDone(j) ==
  /\ worker[j].pc = "w_concat"
  /\ files' = [files EXCEPT ![j] = TempCleaned(@)]
  /\ worker' = [worker EXCEPT ![j].pc = "w_completed"]
  /\ UNCHANGED <<job, ghost, trackerVars>>
  /\ WorkerUnchanged

\* _concatenate_segments: returncode != 0, RuntimeError
W_ConcatFail(j) ==
  /\ worker[j].pc = "w_concat"
  /\ StepFailed(j)
  /\ files' = [files EXCEPT ![j] = TempCleaned(@)]
  /\ worker' = [worker EXCEPT ![j].pc = "h_status"]
  /\ UNCHANGED <<job, trackerVars>>
  /\ WorkerUnchanged

\* _compress_video_worker: job.status = "completed"
W_SetCompleted(j) ==
  /\ worker[j].pc = "w_completed"
  /\ job' = [job EXCEPT ![j].status = "completed"]
  /\ worker' = [worker EXCEPT ![j].pc = "w_size"]
  /\ UNCHANGED <<files, ghost, trackerVars>>
  /\ WorkerUnchanged

\* _compress_video_worker: job.compressed_size_mb = os.path.getsize(...),
\* which raises when the output file does not exist
W_GetSize(j) ==
  /\ worker[j].pc = "w_size"
  /\ IF files[j].output
     THEN /\ job' = [job EXCEPT ![j].compressed_size_mb = 1]
          /\ worker' = [worker EXCEPT ![j].pc = "w_p100"]
          /\ UNCHANGED ghost
     ELSE /\ StepFailed(j)
          /\ worker' = [worker EXCEPT ![j].pc = "h_status"]
          /\ UNCHANGED job
  /\ UNCHANGED <<files, trackerVars>>
  /\ WorkerUnchanged

\* _compress_video_worker: _update_progress(job_id, 100.0, ...)
W_Progress100(j) ==
  /\ worker[j].pc = "w_p100"
  /\ \E r \in CallbackOutcomes(j) :
       /\ UpdateProgress(j, P(100), r)
       /\ worker' = [worker EXCEPT ![j].pc = IF r THEN "h_status" ELSE "done"]
  /\ UNCHANGED files
  /\ WorkerUnchanged

\* except Exception: job.status = "failed"; job.error_message = str(e)
H_SetFailedStatusKept(j) ==
  /\ worker[j].pc = "h_status"
  /\ job' = [job EXCEPT ![j].error_message = TRUE]
  /\ worker' = [worker EXCEPT ![j].pc = "h_progress"]
  /\ UNCHANGED <<files, ghost, trackerVars>>
  /\ WorkerUnchanged
H_SetFailed(j) ==
  /\ worker[j].pc = "h_status"
  /\ job' = [job EXCEPT ![j].status = "failed", ![j].error_message = TRUE]
  /\ worker' = [worker EXCEPT ![j].pc = "h_progress"]
  /\ UNCHANGED <<files, ghost, trackerVars>>
  /\ WorkerUnchanged

\* except block: _update_progress(job_id, job.progress, ...); an exception of
\* the callback leaves the thread before the clean-up
H_Progress(j) ==
  /\ worker[j].pc = "h_progress"
  /\ \E r \in CallbackOutcomes(j) :
       /\ UpdateProgress(j, job[j].progress, r)
       /\ worker' = [worker EXCEPT ![j].pc = IF r THEN "dead" ELSE "h_cleanup"]
  /\ UNCHANGED files
  /\ WorkerUnchanged

\* except block: os.remove(job.output_path) if it exists
H_Cleanup(j) ==
  /\ worker[j].pc = "h_cleanup"
  /\ files' = [files EXCEPT ![j].output = FALSE]
  /\ worker' = [worker EXCEPT ![j].pc = "done"]
  /\ UNCHANGED <<job, ghost, trackerVars>>
  /\ WorkerUnchanged

WorkerStep(j) ==
  \/ W_SetRunning(j) \/ W_Progress0(j)
  \/ \E p \in AnalyzerPercents : W_AnalyzeProgress(j, p)
  \/ W_AnalyzeDone(j)
  \/ W_AnalyzeFail(j) \/ W_Progress20(j)
  \/ W_SingleStart(j) \/ W_SingleDone(j) \/ W_SingleFail(j)
  \/ W_EnterAdaptive(j) \/ W_SegBegin(j) \/ W_EncodeStart(j)
  \/ \E p \in EncoderPercents : W_EncodeProgress(j, p)
  \/ W_EncodeDone(j) \/ W_EncodeFail(j)
  \/ W_Progress90(j) \/ W_ConcatStart(j) \/ W_ConcatDone(j) \/ W_ConcatFail(j)
  \/ W_SetCompleted(j) \/ W_GetSize(j) \/ W_Progress100(j)
  \/ H_SetFailed(j) \/ H_Progress(j) \/ H_Cleanup(j)

\* ============================================================= MotionDetector
\* Motion intensities are fixed-point numbers in thousandths; a time t in
\* seconds is stored as the frame count t * fps, which is exact because every
\* time the detector computes is a frame index divided by fps.

\* self.activity_thresholds
threshold_high == 80
threshold_medium == 40
threshold_low == 10
\* MotionDetector.__init__(min_inactive_duration=30), in seconds
min_inactive_duration == 30
\* "Max 10 second segments"
max_segment_seconds == 10

\* _classify_activity applied to the value num / den
classify_activity(num, den) ==
  IF num >= threshold_high * den THEN "high"
  ELSE IF num >= threshold_medium * den THEN "medium"
  ELSE IF num >= threshold_low * den THEN "low"
  ELSE "inactive"

\* _generate_activity_segments: the condition that closes the current segment
\* at frame i
SegmentBreakOneLate(level, current_level, i, start, fps) ==
  level # current_level \/ i - start > fps * max_segment_seconds
SegmentBreakAtCapOnly(level, current_level, i, start, fps) ==
  i - start >= fps * max_segment_seconds
SegmentBreak(level, current_level, i, start, fps) ==
  level # current_level \/ i - start >= fps * max_segment_seconds

\* ActivitySegment(...): motion_intensity = np.mean(values) is kept as the
\* sum of the values over their number
ActivitySegment(start, end, level, total) ==
  [frame_start |-> start, frame_end |-> end, activity_level |-> level,
   intensity_sum |-> total, intensity_n |-> end - start,
   start_time |-> start, end_time |-> end]

\* _generate_activity_segments: the loop over motion_timeline[1:], at index i
\* (1-based position i + 1), with the locals current_segment_start,
\* current_activity_level and the sum of segment_motion_values
RECURSIVE SegmentLoop(_, _, _, _, _, _, _)
SegmentLoop(tl, fps, i, start, current_level, total, segments) ==
  IF i >= Len(tl)
  THEN IF start < Len(tl)
       THEN Append(segments, ActivitySegment(start, Len(tl), current_level, total))
       ELSE segments
  ELSE LET v == tl[i + 1]
           level == classify_activity(v, 1)
       IN IF SegmentBreak(level, current_level, i, start, fps)
          THEN SegmentLoop(tl, fps, i + 1, i, level, v,
                 Append(segments, ActivitySegment(start, i, current_level, total)))
          ELSE SegmentLoop(tl, fps, i + 1, start, current_level, total + v, segments)

\* _generate_activity_segments(motion_timeline, fps), for a timeline that is
\* not empty (motion_timeline[0] raises IndexError on an empty one)
generate_activity_segments(tl, fps) ==
  SegmentLoop(tl, fps, 1, 0, classify_activity(tl[1], 1), tl[1], <<>>)

\* _identify_sleep_wake_cycles: is an inactive span of d frames a sleep period
LongEnoughAlways(d, fps) == TRUE
LongEnough(d, fps) == d >= min_inactive_duration * fps

\* _identify_sleep_wake_cycles: where the active period that ends at an
\* inactive segment ends
ActiveEndLate(seg) == seg.end_time
ActiveEnd(seg) == seg.start_time

None == 0 - 1

\* _identify_sleep_wake_cycles: the loop over the segments from position k,
\* with the locals current_inactive_start and current_active_start
RECURSIVE CycleLoop(_, _, _, _, _, _, _)
CycleLoop(segs, fps, k, inactive_start, active_start, sleep, active) ==
  IF k > Len(segs)
  THEN LET final_time == segs[Len(segs)].end_time
           sleep2 == IF inactive_start # None
                        /\ LongEnough(final_time - inactive_start, fps)
                     THEN Append(sleep, <<inactive_start, final_time>>)
                     ELSE sleep
           active2 == IF active_start # None
                      THEN Append(active, <<active_start, final_time>>)
                      ELSE active
       IN [sleep_periods |-> sleep2, active_periods |-> active2]
  ELSE LET seg == segs[k] IN
       IF seg.activity_level = "inactive"
       THEN CycleLoop(segs, fps, k + 1,
              IF inactive_start = None THEN seg.start_time ELSE inactive_start,
              None,
              sleep,
              IF active_start # None
              THEN Append(active, <<active_start, ActiveEnd(seg)>>) ELSE active)
       ELSE CycleLoop(segs, fps, k + 1,
              None,
              IF active_start = None THEN seg.start_time ELSE active_start,
              IF inactive_start # None
                 /\ LongEnough(seg.start_time - inactive_start, fps)
              THEN Append(sleep, <<inactive_start, seg.start_time>>) ELSE sleep,
              active)

\* _identify_sleep_wake_cycles(segments)
identify_sleep_wake_cycles(segs, fps) ==
  IF segs = <<>> THEN [sleep_periods |-> <<>>, active_periods |-> <<>>]
  ELSE CycleLoop(segs, fps, 1, None, None, <<>>, <<>>)

\* the frames cap.read() returns before it fails: each run is a stretch of
\* frames of one motion intensity
RECURSIVE Frames(_)
Frames(runs) ==
  IF runs = <<>> THEN <<>>
  ELSE [k \in 1..Head(runs).len |-> Head(runs).value] \o Frames(Tail(runs))

RECURSIVE SumLengths(_)
SumLengths(ps) ==
  IF ps = <<>> THEN 0 ELSE (Head(ps)[2] - Head(ps)[1]) + SumLengths(Tail(ps))

\* a file cv2.VideoCapture cannot open
ClosedSource == [opened |-> FALSE, fps |-> 1, frame_count |-> 0, runs |-> <<>>]

NoAnalysis == [pc |-> "idle", total_frames |-> 0, fps |-> 1,
               motion_timeline |-> <<>>, activity_segments |-> <<>>,
               sleep_periods |-> <<>>, active_periods |-> <<>>,
               active_time |-> 0, error |-> "none"]

\* analyze_video: cv2.VideoCapture(video_path), isOpened, CAP_PROP_FPS and
\* CAP_PROP_FRAME_COUNT
An_Open ==
  /\ analysis.pc = "open"
  /\ analysis' = IF ~source.opened
                 THEN [analysis EXCEPT !.pc = "raised", !.error = "ValueError"]
                 ELSE [analysis EXCEPT !.pc = "decode", !.fps = source.fps,
                                       !.total_frames = source.frame_count]
  /\ UNCHANGED <<source, compressorVars, busVars, registryVars, lockVars, sideVars>>

\* analyze_video: the while loop reads frames until cap.read() fails and
\* appends one motion intensity per frame
An_Decode ==
  /\ analysis.pc = "decode"
  /\ analysis' = [analysis EXCEPT !.pc = "segments",
                                  !.motion_timeline = Frames(source.runs)]
  /\ UNCHANGED <<source, compressorVars, busVars, registryVars, lockVars, sideVars>>

\* analyze_video: self._generate_activity_segments(motion_timeline, fps)
An_Segments ==
  /\ analysis.pc = "segments"
  /\ analysis' =
       IF analysis.motion_timeline = <<>>
       THEN [analysis EXCEPT !.pc = "raised", !.error = "IndexError"]
       ELSE [analysis EXCEPT
               !.pc = "cycles",
               !.activity_segments =
                  generate_activity_segments(analysis.motion_timeline, analysis.fps)]
  /\ UNCHANGED <<source, compressorVars, busVars, registryVars, lockVars, sideVars>>

\* analyze_video: self._identify_sleep_wake_cycles(activity_segments)
An_Cycles ==
  /\ analysis.pc = "cycles"
  /\ LET c == identify_sleep_wake_cycles(analysis.activity_segments, analysis.fps)
     IN analysis' = [analysis EXCEPT !.pc = "ratio",
                                     !.sleep_periods = c.sleep_periods,
                                     !.active_periods = c.active_periods]
  /\ UNCHANGED <<source, compressorVars, busVars, registryVars, lockVars, sideVars>>

\* analyze_video: total_active_time = sum(end - start); the ratio
\* total_active_time / duration if duration > 0 else 0 is kept as the pair
\* (active_time, total_frames); return MotionAnalysisResult(...)
An_Return ==
  /\ analysis.pc = "ratio"
  /\ analysis' = [analysis EXCEPT !.pc = "returned",
                                  !.active_time = SumLengths(analysis.active_periods)]
  /\ UNCHANGED <<source, compressorVars, busVars, registryVars, lockVars, sideVars>>

\* ------------------------------------------- the detector's background model

\* what a frame shows: the decoded frames of a video are taken from two images
Scenes == {0, 1}

\* cv2.createBackgroundSubtractorMOG2(...).apply(frame, learningRate = 0.001):
\* the share of the frame (in thousandths) that the mask marks as foreground.
\* A model that has seen no frame matches nothing; after that the background
\* is the image the model was started with (at learning rate 0.001 another
\* image stays foreground for hundreds of frames)
bg_apply_mask(model, frame) == IF model = None \/ model # frame THEN 1000 ELSE 0
bg_apply_model(model, frame) == IF model = None THEN frame ELSE model

\* _calculate_motion_intensity: mean optical-flow magnitude / 100 and the
\* share of changed pixels between prev_gray and gray (thousandths), both 0.0
\* when prev_gray is None
optical_flow_intensity(prev_gray, gray) ==
  IF prev_gray = None \/ prev_gray = gray THEN 0 ELSE 100
frame_diff_intensity(prev_gray, gray) ==
  IF prev_gray = None \/ prev_gray = gray THEN 0 ELSE 1000

\* _calculate_motion_intensity(frame, prev_gray, ...) on a subtractor in state
\* model: min(bg * 0.5 + flow * 0.3 + diff * 0.2, 1.0), in thousandths
calculate_motion_intensity(model, frame, prev_gray) ==
  Min((bg_apply_mask(model, frame) * 500
         + optical_flow_intensity(prev_gray, frame) * 300
         + frame_diff_intensity(prev_gray, frame) * 200) \div 1000, 1000)

AnalysisCalls == {"call1", "call2"}

NoRun(v) == [pc |-> "idle", video |-> v, frame_count |-> 0, prev_gray |-> None,
             motion_timeline |-> <<>>, activity_segments |-> <<>>,
             sleep_periods |-> <<>>, active_periods |-> <<>>]

InProgress(r) == run[r].pc \in {"decode"}

DetectorUnchanged ==
  UNCHANGED <<compressorVars, busVars, analysisVars, registryVars, lockVars,
              requestVars, speedVars, notifyVars>>

\* analyze_video is called on the shared detector: cv2.VideoCapture(path),
\* motion_timeline = [], frame_count = 0, prev_gray = None
Det_Open(r) ==
  /\ run[r].pc = "idle"
  /\ run' = [run EXCEPT ![r].pc = "decode"]
  /\ overlap' = (overlap \/ \E o \in AnalysisCalls \ {r} : InProgress(o))
  /\ UNCHANGED bg_subtractor
  /\ DetectorUnchanged

\* analyze_video: one pass of the while loop with ret = True:
\* _calculate_motion_intensity applies the frame to self.bg_subtractor
Det_Frame(r) ==
  /\ run[r].pc = "decode"
  /\ run[r].frame_count < Len(run[r].video)
  /\ LET frame == run[r].video[run[r].frame_count + 1] IN
       /\ run' = [run EXCEPT
                    ![r].motion_timeline =
                       Append(@, calculate_motion_intensity(bg_subtractor, frame,
                                                            run[r].prev_gray)),
                    ![r].prev_gray = frame,
                    ![r].frame_count = @ + 1]
       /\ bg_subtractor' = bg_apply_model(bg_subtractor, frame)
  /\ UNCHANGED overlap
  /\ DetectorUnchanged

\* analyze_video: cap.read() fails, the loop ends; segments and periods are
\* derived from the timeline (fps 1) and the result is returned
Det_Return(r) ==
  /\ run[r].pc = "decode"
  /\ run[r].frame_count = Len(run[r].video)
  /\ LET segs == generate_activity_segments(run[r].motion_timeline, 1)
         c == identify_sleep_wake_cycles(segs, 1)
     IN run' = [run EXCEPT ![r].pc = "returned",
                           ![r].activity_segments = segs,
                           ![r].sleep_periods = c.sleep_periods,
                           ![r].active_periods = c.active_periods]
  /\ UNCHANGED <<bg_subtractor, overlap>>
  /\ DetectorUnchanged

\* ================================================== CompressionProfileManager

\* CompressionSettings(crf, fps, preset, profile, ...)
CompressionSettings(c, f, pre, pro) ==
  [crf |-> c, fps |-> f, preset |-> pre, profile |-> pro]

\* ActivityCompressionProfile(high_activity, medium_activity, low_activity,
\* inactive, ...)
ActivityCompressionProfile(h, m, l, i) ==
  [high_activity |-> h, medium_activity |-> m, low_activity |-> l, inactive |-> i]

\* _create_default_profiles
DefaultProfiles ==
  [conservative |-> ActivityCompressionProfile(
       CompressionSettings(18, 30, "slow", "high"),
       CompressionSettings(20, 25, "slow", "high"),
       CompressionSettings(23, 20, "medium", "main"),
       CompressionSettings(25, 15, "medium", "main")),
   balanced |-> ActivityCompressionProfile(
       CompressionSettings(21, 25, "medium", "high"),
       CompressionSettings(24, 20, "medium", "main"),
       CompressionSettings(27, 15, "fast", "main"),
       CompressionSettings(28, 10, "fast", "baseline")),
   aggressive |-> ActivityCompressionProfile(
       CompressionSettings(23, 20, "fast", "main"),
       CompressionSettings(26, 15, "fast", "main"),
       CompressionSettings(30, 10, "fast", "baseline"),
       CompressionSettings(32, 5, "ultrafast", "baseline"))]

\* the members of the enum CompressionProfile
ProfileTypes == {"conservative", "balanced", "aggressive", "custom"}

CustomNames == {"lab", "night"}      \* names custom profiles are stored under
NoName == ""                         \* custom_name=None
NoProfile == [kind |-> "none"]

valid_presets == {"ultrafast", "superfast", "veryfast", "faster", "fast",
                  "medium", "slow", "slower", "veryslow"}
valid_profiles == {"baseline", "main", "high"}

\* CompressionValidator.validate_settings: TRUE iff it does not raise
validate_settings(st) ==
  /\ 0 <= st.crf /\ st.crf <= 51
  /\ 1 <= st.fps /\ st.fps <= 60
  /\ st.preset \in valid_presets
  /\ st.profile \in valid_profiles

\* CompressionValidator.validate_profile: TRUE iff it does not raise
validate_profile(pr) ==
  /\ validate_settings(pr.high_activity)
  /\ validate_settings(pr.medium_activity)
  /\ validate_settings(pr.low_activity)
  /\ validate_settings(pr.inactive)
  /\ pr.high_activity.crf <= pr.medium_activity.crf
  /\ pr.medium_activity.crf <= pr.low_activity.crf
  /\ pr.low_activity.crf <= pr.inactive.crf

\* CompressionProfileManager.get_profile(profile_type, custom_name)
get_profile(t, n) ==
  IF t = "custom" /\ n # NoName
  THEN IF custom_profiles[n] # NoProfile
       THEN [kind |-> "profile", profile |-> custom_profiles[n]]
       ELSE [kind |-> "ValueError"]
  ELSE IF t \in DOMAIN DefaultProfiles
       THEN [kind |-> "profile", profile |-> DefaultProfiles[t]]
       ELSE [kind |-> "ValueError"]

\* CompressionProfileManager.create_custom_profile(name, profile)
create_custom_profile(n, pr) ==
  custom_profiles' = [custom_profiles EXCEPT ![n] = pr]

\* a client adds a custom profile
Reg_CreateCustom(n, pr) ==
  /\ create_custom_profile(n, pr)
  /\ UNCHANGED <<retrieved, compressorVars, busVars, analysisVars, lockVars,
               sideVars>>

\* a client looks a profile up
Reg_GetProfile(t, n) ==
  /\ retrieved' = get_profile(t, n)
  /\ UNCHANGED <<custom_profiles, compressorVars, busVars, analysisVars, lockVars,
               sideVars>>

\* =========================================================== ProgressHistory

\* ProgressHistory.get_average_speed over the snapshots sn: None below two
\* snapshots or when no time has passed, else the quotient
\* progress_diff / time_diff, kept as the pair (num, den)
get_average_speed(sn) ==
  IF Len(sn) < 2 THEN [kind |-> "None", num |-> 0, den |-> 1]
  ELSE LET first == sn[1]
           last == sn[Len(sn)]
           time_diff == last.timestamp - first.timestamp
           progress_diff == last.percentage - first.percentage
       IN IF time_diff > 0
          THEN [kind |-> "float", num |-> progress_diff, den |-> time_diff]
          ELSE [kind |-> "None", num |-> 0, den |-> 1]

\* the percentages of the progress events that reach the history
SnapshotPercents == {0, 50, 100}

SpeedUnchanged ==
  UNCHANGED <<compressorVars, busVars, analysisVars, registryVars, lockVars,
              requestVars, detectorVars, notifyVars>>

\* time passes between two calls of datetime.now()
Sp_Tick ==
  /\ now < MaxTime
  /\ now' = now + 1
  /\ UNCHANGED snapshots
  /\ SpeedUnchanged

\* update_progress stamps a progress event with datetime.now() and
\* _process_event adds its snapshot: ProgressHistory.add_snapshot
Sp_AddSnapshot(p) ==
  /\ Len(snapshots) < MaxSpeedSnapshots
  /\ snapshots' = DequeAppend(snapshots, [percentage |-> P(p), timestamp |-> now])
  /\ UNCHANGED now
  /\ SpeedUnchanged

SpeedIdle == snapshots = <<>> /\ now = 0

\* ========================================================== JobUpdateRequest

JobStatus == {"pending", "queued", "running", "completed", "failed",
              "cancelled", "paused"}
JobPriority == {"low", "normal", "high", "urgent"}

\* the table that validate_status_transition builds
valid_transitions ==
  [s \in JobStatus |->
     CASE s = "pending" -> {"queued", "cancelled"}
       [] s = "queued" -> {"running", "cancelled"}
       [] s = "running" -> {"completed", "failed", "cancelled", "paused"}
       [] s = "paused" -> {"running", "cancelled"}
       [] s = "completed" -> {}
       [] s = "failed" -> {"pending"}
       [] s = "cancelled" -> {}]

\* JobUpdateRequest.validate_status_transition(v, values): the table is built
\* and never consulted, the requested status is returned as valid
validate_status_transition(current, v) == [ok |-> TRUE, status |-> v]

NoRequest == [priority |-> "none", status |-> "none", outcome |-> "none"]

RequestInit == update \in [current : JobStatus, request : {NoRequest}]

\* a caller builds JobUpdateRequest(priority = p, status = v) for a job; the
\* validator runs only when a status is given ("none" stands for None)
Up_Request(p, v) ==
  /\ update' =
       [update EXCEPT !.request =
          [priority |-> p, status |-> v,
           outcome |-> IF v = "none" THEN "accepted"
                       ELSE IF validate_status_transition(update.current, v).ok
                            THEN "accepted" ELSE "InvalidTransition"]]
  /\ UNCHANGED <<compressorVars, busVars, analysisVars, registryVars, lockVars,
               detectorVars, speedVars, notifyVars>>

\* ==================================================================== app.py

\* AdaptiveCompressor.start_compression_job raises: get_profile raises
\* ValueError for a profile that is not registered, and a missing input file
\* raises FileNotFoundError
start_compression_job_raises(j) == task[j].request # "ok"

\* AdaptiveCompressor.start_compression_job when it does not raise: the job
\* is created and registered, its callback is stored if one was passed (a
\* "plain" client passes none) and its worker thread is started
start_compression_job(j) ==
  /\ job' = [job EXCEPT ![j] = NewJob]
  /\ active_jobs' = active_jobs \cup {j}
  /\ progress_callbacks' = IF task[j].client = "plain" THEN progress_callbacks
                           ELSE progress_callbacks \cup {j}
  /\ worker' = [worker EXCEPT ![j].pc = "w_start"]

\* AdaptiveCompressor.cleanup_job
cleanup_job(j) ==
  /\ active_jobs' = active_jobs \ {j}
  /\ progress_callbacks' = progress_callbacks \ {j}

TaskUnchanged == UNCHANGED <<files, cancel, ghost, subVars, obsVars, restVars>>

\* run_compression_job: the profile type is found in the enum, then
\* progress_tracker.register_job(job_id, "compression")
R_Register(j) ==
  /\ task[j].pc = "r_start"
  /\ register_job(j)
  /\ task' = [task EXCEPT ![j].pc = "r_start_job"]
  /\ UNCHANGED <<job, active_jobs, progress_callbacks, worker>>
  /\ TaskUnchanged

\* run_compression_job: compressor.start_compression_job(...).  get_profile
\* raises ValueError for a profile that is not registered, and a missing input
\* raises FileNotFoundError; both end in the except block of the task, which
\* calls progress_tracker.fail_job.  Otherwise the job is created and its
\* worker thread started.
R_StartJob(j) ==
  /\ task[j].pc = "r_start_job"
  /\ IF ~start_compression_job_raises(j)
     THEN /\ start_compression_job(j)
          /\ task' = [task EXCEPT ![j].pc = "r_monitor"]
          /\ UNCHANGED trackerVars
     ELSE /\ fail_job(j)
          /\ task' = [task EXCEPT ![j].pc = "r_done"]
          /\ UNCHANGED <<job, active_jobs, progress_callbacks, worker>>
  /\ TaskUnchanged

\* run_compression_job: while job.status in ["pending", "running"] is left
R_Monitor(j) ==
  /\ task[j].pc = "r_monitor"
  /\ job[j].status \notin {"pending", "running"}
  /\ task' = [task EXCEPT ![j].pc = "r_branch"]
  /\ UNCHANGED <<job, active_jobs, progress_callbacks, worker, trackerVars>>
  /\ TaskUnchanged

\* run_compression_job: complete_job if job.status == "completed", else
\* fail_job
R_Branch(j) ==
  /\ task[j].pc = "r_branch"
  /\ IF job[j].status = "completed" THEN complete_job(j) ELSE fail_job(j)
  /\ task' = [task EXCEPT ![j].pc = "r_cleanup"]
  /\ UNCHANGED <<job, active_jobs, progress_callbacks, worker>>
  /\ TaskUnchanged

\* run_compression_job: compressor.cleanup_job(job_id)
R_Cleanup(j) ==
  /\ task[j].pc = "r_cleanup"
  /\ cleanup_job(j)
  /\ task' = [task EXCEPT ![j].pc = "r_done"]
  /\ UNCHANGED <<job, worker, trackerVars>>
  /\ TaskUnchanged

TaskStep(j) ==
  \/ R_Register(j) \/ R_StartJob(j) \/ R_Monitor(j) \/ R_Branch(j) \/ R_Cleanup(j)

\* A direct client of the compressor (CompressionBenchmark, the test script):
\* start_compression_job with a callback of its own
D_StartJob(j) ==
  /\ task[j].pc = "d_start"
  /\ IF ~start_compression_job_raises(j)
     THEN /\ start_compression_job(j)
          /\ task' = [task EXCEPT ![j].pc = "d_wait"]
     ELSE /\ task' = [task EXCEPT ![j].pc = "d_done"]
          /\ UNCHANGED <<job, active_jobs, progress_callbacks, worker>>
  /\ UNCHANGED trackerVars
  /\ TaskUnchanged

\* the client's loop while job.status in ["pending", "running"] is left
D_Wait(j) ==
  /\ task[j].pc = "d_wait"
  /\ job[j].status \notin {"pending", "running"}
  /\ task' = [task EXCEPT ![j].pc = "d_cleanup"]
  /\ UNCHANGED <<job, active_jobs, progress_callbacks, worker, trackerVars>>
  /\ TaskUnchanged

\* the client calls compressor.cleanup_job(job_id)
D_Cleanup(j) ==
  /\ task[j].pc = "d_cleanup"
  /\ cleanup_job(j)
  /\ task' = [task EXCEPT ![j].pc = "d_done"]
  /\ UNCHANGED <<job, worker, trackerVars>>
  /\ TaskUnchanged

DirectStep(j) == D_StartJob(j) \/ D_Wait(j) \/ D_Cleanup(j)

\* AdaptiveCompressor.cancel_job: the statuses it cancels
CanCancelNotCancelled(s) == s # "cancelled"
CanCancel(s) == s = "running"

CancelUnchanged == UNCHANGED <<active_jobs, progress_callbacks, worker, task,
                               subVars, obsVars, restVars>>

\* cancel_job: job_id not in self.active_jobs -> False; job.status is read
\* and compared with "running"
C_Check(j) ==
  /\ cancel[j].pc = "idle"
  /\ cancel[j].count < MaxCancels
  /\ IF j \notin active_jobs
     THEN cancel' = [cancel EXCEPT ![j].count = @ + 1, ![j].seen = "none",
                                   ![j].result = "false"]
     ELSE IF CanCancel(job[j].status)
          THEN cancel' = [cancel EXCEPT ![j].count = @ + 1,
                                        ![j].seen = job[j].status,
                                        ![j].result = "none",
                                        ![j].pc = "c_mark"]
          ELSE cancel' = [cancel EXCEPT ![j].count = @ + 1,
                                        ![j].seen = job[j].status,
                                        ![j].result = "false"]
  /\ UNCHANGED <<job, files, ghost, trackerVars>>
  /\ CancelUnchanged

\* cancel_job: job.status = "cancelled"
C_Mark(j) ==
  /\ cancel[j].pc = "c_mark"
  /\ job' = [job EXCEPT ![j].status = "cancelled"]
  /\ ghost' = [ghost EXCEPT ![j].cancel_marked = TRUE]
  /\ cancel' = [cancel EXCEPT ![j].pc = "c_remove"]
  /\ UNCHANGED <<files, trackerVars>>
  /\ CancelUnchanged

\* cancel_job: os.remove(job.output_path) if it exists; return True
C_Remove(j) ==
  /\ cancel[j].pc = "c_remove"
  /\ files' = [files EXCEPT ![j].output = FALSE]
  /\ cancel' = [cancel EXCEPT
                  ![j].pc = IF task[j].client = "app" THEN "c_emit" ELSE "idle",
                  ![j].result = "true"]
  /\ UNCHANGED <<job, ghost, trackerVars>>
  /\ CancelUnchanged

\* cancel endpoint of app.py: progress_tracker.cancel_job(job_id) on success
C_Emit(j) ==
  /\ cancel[j].pc = "c_emit"
  /\ tracker_cancel_job(j)
  /\ cancel' = [cancel EXCEPT ![j].pc = "idle"]
  /\ UNCHANGED <<job, files, ghost>>
  /\ CancelUnchanged

CancelStep(j) == C_Check(j) \/ C_Mark(j) \/ C_Remove(j) \/ C_Emit(j)

\* the dispatcher thread of the tracker; broadcast_progress, the subscriber
\* app.py installs, catches its own exceptions
A_Dispatch ==
  /\ ProcessEvent({})
  /\ UNCHANGED <<compressorVars, restVars>>

TrackerInit ==
  /\ event_queue = <<>>
  /\ hist_events = [j \in JobIds |-> <<>>]
  /\ hist_snapshots = [j \in JobIds |-> <<>>]
  /\ in_history = {}
  /\ tracker_active = {}
  /\ tracker_pct = [j \in JobIds |-> 0]
  /\ received = [c \in Callbacks |-> <<>>]
  /\ submitted = <<>>
  /\ bus_calls = 0
  /\ sub_calls = 0
  /\ raise_passed = FALSE

\* the compressor before the requests for the job ids in jobs are handled
CompressorInitFor(jobs, reqs, client, start, maxseg) ==
  /\ job = [j \in jobs |-> NoJob]
  /\ active_jobs = {}
  /\ progress_callbacks = {}
  /\ files = [j \in jobs |-> [output |-> FALSE, temp_dir |-> FALSE, segments |-> 0]]
  /\ worker = [j \in jobs |-> [pc |-> "idle", apct |-> 0, epct |-> 0, i |-> 0]]
  /\ task \in [jobs -> [request : reqs, segments : 0..maxseg,
                         client : {client}, pc : {start}]]
  /\ \A j \in jobs : task[j].request # "ok" => task[j].segments = 0
  /\ cancel = [j \in jobs |-> [pc |-> "idle", seen |-> "none", result |-> "none", count |-> 0]]
  /\ ghost = [j \in jobs |-> [step_failed |-> FALSE, progress_before_failure |-> 0,
                              cb_raised |-> FALSE, cancel_marked |-> FALSE]]

CompressorInit(reqs, client, start, maxseg) ==
  CompressorInitFor(AppJobs, reqs, client, start, maxseg)

\* no analysis has been started outside the jobs
Producers == {"worker1", "worker2"}  \* threads that call the tracker
NoEvent == [job |-> "", type |-> "", pct |-> 0, id |-> 0]

\* no thread is inside the tracker
LockInit ==
  /\ lock_owner = "none"
  /\ dispatcher = [pc |-> "idle", event |-> NoEvent, todo |-> <<>>, in_callback |-> FALSE]
  /\ producer = [t \in Producers |-> [pc |-> "idle", op |-> "", job |-> ""]]

RegistryInit ==
  /\ custom_profiles = [n \in CustomNames |-> NoProfile]
  /\ retrieved = NoProfile

RequestIdle == update = [current |-> "pending", request |-> NoRequest]

\* MotionDetector.__init__: a new background subtractor, no call made
DetectorIdle ==
  /\ bg_subtractor = None
  /\ run = [r \in AnalysisCalls |-> NoRun(<<>>)]
  /\ overlap = FALSE

SideIdle == RequestIdle /\ DetectorIdle /\ SpeedIdle /\ NotifyIdle

\* everything outside the compressor and the bus before it is used
BaseIdle ==
  /\ CompressorInit({"ok"}, "app", "r_start", 0)
  /\ TrackerInit
  /\ subscribers = [j \in JobIds |-> <<>>]
  /\ global_subscribers = <<>>

RestIdle ==
  /\ SideIdle
  /\ source = ClosedSource
  /\ analysis = NoAnalysis
  /\ RegistryInit
  /\ LockInit

\* the application after startup: compression tasks have been scheduled by
\* start_compression, and broadcast_progress is subscribed to all jobs
Init ==
  /\ CompressorInit(Requests, "app", "r_start", AppMaxSegments)
  /\ TrackerInit
  /\ RestIdle
  /\ subscribers = [j \in JobIds |-> <<>>]
  /\ global_subscribers = <<"cbA">>

Next ==
  \/ \E j \in AppJobs : WorkerStep(j)
  \/ \E j \in AppJobs : TaskStep(j)
  \/ \E j \in AppJobs : CancelStep(j)
  \/ A_Dispatch

Spec == Init /\ [][Next]_vars

\* ================================================ the compressor on its own

\* a client has an AdaptiveCompressor and is about to start a job on it
CompressorOnlyInit ==
  /\ CompressorInit(Requests, "direct", "d_start", MaxSegments)
  /\ TrackerInit
  /\ RestIdle
  /\ subscribers = [j \in JobIds |-> <<>>]
  /\ global_subscribers = <<>>

CompressorNext ==
  \/ \E j \in AppJobs : WorkerStep(j)
  \/ \E j \in AppJobs : DirectStep(j)
  \/ \E j \in AppJobs : C_Check(j) \/ C_Mark(j) \/ C_Remove(j)

SpecCompressor == CompressorOnlyInit /\ [][CompressorNext]_vars

\* the same, with worker threads that keep being scheduled and analyzer and
\* encoder invocations that return: a worker that can take a step takes one
SpecCompressorFair ==
  SpecCompressor /\ \A j \in AppJobs : WF_vars(WorkerStep(j))

\* ============================================ the progress bus on its own

BusPercents == {50}

\* Job ids and callbacks are interchangeable in the tracker, so the first
\* producer call is taken to be about FirstJob and the first subscription to
\* be of FirstCallback.
FirstJob == "job1"
FirstCallback == "cbA"

\* a producer calls one operation of the tracker. _process_event handles the
\* three terminal event types alike, and complete_job stands for fail_job and
\* cancel_job here.
B_Produce(j) ==
  /\ bus_calls < MaxBusEvents
  /\ bus_calls = 0 => j = FirstJob
  /\ bus_calls' = bus_calls + 1
  /\ \/ register_job(j)
     \/ \E p \in BusPercents : update_progress(j, P(p))
     \/ change_stage(j)
     \/ complete_job(j)
  /\ UNCHANGED <<compressorVars, restVars, subVars, received, sub_calls, raise_passed>>

\* a client subscribes a callback
B_Subscribe(c) ==
  /\ sub_calls < MaxSubscriptions
  /\ sub_calls = 0 => c = FirstCallback
  /\ sub_calls' = sub_calls + 1
  /\ \/ \E j \in JobIds : subscribe_to_job(j, c)
     \/ subscribe_to_all(c)
  /\ UNCHANGED <<compressorVars, restVars, trackerVars, received, bus_calls, raise_passed>>

\* a client unsubscribes a callback
B_Unsubscribe(c) ==
  /\ sub_calls < MaxSubscriptions
  /\ sub_calls' = sub_calls + 1
  /\ \/ \E j \in JobIds : c \in {subscribers[j][k] : k \in 1..Len(subscribers[j])}
                          /\ unsubscribe_from_job(j, c)
     \/ /\ c \in {global_subscribers[k] : k \in 1..Len(global_subscribers)}
        /\ unsubscribe_from_all(c)
  /\ UNCHANGED <<compressorVars, restVars, trackerVars, received, bus_calls, raise_passed>>

\* the callbacks subscribed to the job of the event at the head of the queue
Listening ==
  IF event_queue = <<>> THEN {}
  ELSE LET l == subscribers[Head(event_queue).job] \o global_subscribers
       IN {l[k] : k \in 1..Len(l)}

\* the dispatcher thread; any of the callbacks it calls may raise
B_Dispatch ==
  /\ \E R \in SUBSET Listening : ProcessEvent(R)
  /\ UNCHANGED <<compressorVars, restVars>>

BusInit ==
  /\ CompressorInit({"ok"}, "app", "r_start", 0)
  /\ TrackerInit
  /\ RestIdle
  /\ subscribers = [j \in JobIds |-> <<>>]
  /\ global_subscribers = <<>>

BusNext ==
  \/ \E j \in JobIds : B_Produce(j)
  \/ \E c \in Callbacks : B_Subscribe(c)
  \/ \E c \in Callbacks : B_Unsubscribe(c)
  \/ B_Dispatch

SpecBus == BusInit /\ [][BusNext]_vars

\* ============================================== the motion analysis on its own

Intensities == {0, 9, 40, 80}    \* motion intensities of frames, in thousandths
RunLengths == {1, 10, 30}        \* lengths of the stretches, in frames
FpsValues == {1, 2}              \* CAP_PROP_FPS of the analysed videos
HeaderErrors == {0, 1}           \* frames CAP_PROP_FRAME_COUNT counts that
                                 \* cap.read() does not deliver

Runs == [value : Intensities, len : RunLengths]
\* a stretch ends where the intensity changes
RunSeqs ==
  {r \in UNION {[1..n -> Runs] : n \in 0..MaxRuns} :
     \A k \in 1..(Len(r) - 1) : r[k].value # r[k + 1].value}

RECURSIVE RunFrames(_)
RunFrames(runs) ==
  IF runs = <<>> THEN 0 ELSE Head(runs).len + RunFrames(Tail(runs))

\* the video files analysed: one that cannot be opened, and readable ones
Sources ==
  {ClosedSource} \cup
  {[opened |-> TRUE, fps |-> f, frame_count |-> RunFrames(r) + x, runs |-> r] :
     f \in FpsValues, x \in HeaderErrors, r \in RunSeqs}

\* a client calls MotionDetector().analyze_video(path) on some video file
AnalysisInit ==
  /\ CompressorInit({"ok"}, "app", "r_start", 0)
  /\ TrackerInit
  /\ subscribers = [j \in JobIds |-> <<>>]
  /\ global_subscribers = <<>>
  /\ source \in Sources
  /\ analysis = [NoAnalysis EXCEPT !.pc = "open"]
  /\ RegistryInit
  /\ LockInit
  /\ SideIdle

AnalysisNext == An_Open \/ An_Decode \/ An_Segments \/ An_Cycles \/ An_Return

SpecAnalysis == AnalysisInit /\ [][AnalysisNext]_vars

\* ================================================ several submissions at once

\* get_queue_status reports active_workers=1
active_workers == 1

\* two clients of one AdaptiveCompressor are each about to submit a job with
\* start_compression_job, as the tasks that start_compression schedules do;
\* they pass no progress callback
SubmissionsInit ==
  /\ CompressorInitFor(JobIds, {"ok"}, "plain", "d_start", AppMaxSegments)
  /\ TrackerInit
  /\ RestIdle
  /\ subscribers = [j \in JobIds |-> <<>>]
  /\ global_subscribers = <<>>

SubmissionsNext ==
  \/ \E j \in JobIds : WorkerStep(j)
  \/ \E j \in JobIds : DirectStep(j)

SpecSubmissions == SubmissionsInit /\ [][SubmissionsNext]_vars

\* ======================================= the threads of the tracker, by step

\* the operations of the tracker that enter "with self._lock": update_progress
\* itself, and change_stage, fail_job and cancel_job through
\* get_current_percentage; register_job and complete_job do not
LockedOps == {"update_progress", "change_stage", "fail_job", "cancel_job"}
TrackerOps == LockedOps \cup {"register_job", "complete_job"}

\* the body of operation op for job j
RunOp(op, j) ==
  CASE op = "register_job" -> register_job(j)
    [] op = "update_progress" -> \E p \in BusPercents : update_progress(j, P(p))
    [] op = "change_stage" -> change_stage(j)
    [] op = "complete_job" -> complete_job(j)
    [] op = "fail_job" -> fail_job(j)
    [] op = "cancel_job" -> tracker_cancel_job(j)

LockUnchanged == UNCHANGED <<compressorVars, analysisVars, registryVars, subVars,
                             sub_calls, raise_passed, sideVars>>

\* thread t calls an operation of the tracker: it runs at once if it needs
\* no lock or the lock is free, else the thread blocks in "with self._lock"
L_Call(t, op, j) ==
  /\ producer[t].pc = "idle"
  /\ bus_calls < MaxBusEvents
  /\ bus_calls' = bus_calls + 1
  /\ IF op \in LockedOps /\ lock_owner # "none"
     THEN /\ producer' = [producer EXCEPT ![t] = [pc |-> "blocked", op |-> op, job |-> j]]
          /\ UNCHANGED trackerVars
     ELSE /\ RunOp(op, j)
          /\ UNCHANGED producer
  /\ UNCHANGED <<lock_owner, dispatcher, received>>
  /\ LockUnchanged

\* a blocked thread gets the lock and runs its operation
L_Resume(t) ==
  /\ producer[t].pc = "blocked"
  /\ lock_owner = "none"
  /\ RunOp(producer[t].op, producer[t].job)
  /\ producer' = [producer EXCEPT ![t] = [pc |-> "idle", op |-> "", job |-> ""]]
  /\ UNCHANGED <<lock_owner, dispatcher, received, bus_calls>>
  /\ LockUnchanged

\* _event_worker: self._event_queue.get(); _process_event enters
\* "with self._lock", records the event and starts _notify_subscribers
L_DispatchBegin ==
  /\ dispatcher.pc = "idle"
  /\ lock_owner = "none"
  /\ event_queue # <<>>
  /\ LET e == event_queue[QueueGet(event_queue)] IN
     /\ event_queue' = RemoveAt(event_queue, QueueGet(event_queue))
     /\ RecordEvent(e)
     /\ dispatcher' = [pc |-> "notify", event |-> e,
                       todo |-> subscribers[e.job] \o global_subscribers,
                       in_callback |-> FALSE]
  /\ lock_owner' = "dispatcher"
  /\ UNCHANGED <<submitted, producer, received, bus_calls>>
  /\ LockUnchanged

\* _notify_subscribers: callback(event) is entered
L_CallbackStart ==
  /\ dispatcher.pc = "notify"
  /\ ~dispatcher.in_callback
  /\ dispatcher.todo # <<>>
  /\ dispatcher' = [dispatcher EXCEPT !.in_callback = TRUE]
  /\ received' = [received EXCEPT ![Head(dispatcher.todo)] = Append(@, dispatcher.event)]
  /\ UNCHANGED <<trackerVars, lock_owner, producer, bus_calls>>
  /\ LockUnchanged

\* _notify_subscribers: the callback returns or raises; the loop goes on
L_CallbackReturn ==
  /\ dispatcher.pc = "notify"
  /\ dispatcher.in_callback
  /\ dispatcher' = [dispatcher EXCEPT !.in_callback = FALSE, !.todo = Tail(@)]
  /\ UNCHANGED <<trackerVars, lock_owner, producer, received, bus_calls>>
  /\ LockUnchanged

\* _process_event leaves "with self._lock"
L_DispatchEnd ==
  /\ dispatcher.pc = "notify"
  /\ ~dispatcher.in_callback
  /\ dispatcher.todo = <<>>
  /\ dispatcher' = [dispatcher EXCEPT !.pc = "idle", !.event = NoEvent]
  /\ lock_owner' = "none"
  /\ UNCHANGED <<trackerVars, producer, received, bus_calls>>
  /\ LockUnchanged

\* the tracker of the application: broadcast_progress is subscribed to all
\* jobs
ThreadsInit ==
  /\ CompressorInit({"ok"}, "app", "r_start", 0)
  /\ TrackerInit
  /\ RestIdle
  /\ subscribers = [j \in JobIds |-> <<>>]
  /\ global_subscribers = <<"cbA">>

ThreadsNext ==
  \/ \E t \in Producers, op \in TrackerOps, j \in JobIds : L_Call(t, op, j)
  \/ \E t \in Producers : L_Resume(t)
  \/ L_DispatchBegin \/ L_CallbackStart \/ L_CallbackReturn \/ L_DispatchEnd

SpecThreads == ThreadsInit /\ [][ThreadsNext]_vars

\* ================================================ the history of a long job

\* the worker of a long job reports to the tracker: register_job first, then
\* one update_progress after the other
Hs_Produce ==
  /\ bus_calls < MaxHistoryCalls
  /\ bus_calls' = bus_calls + 1
  /\ IF bus_calls = 0
     THEN register_job(FirstJob)
     ELSE \E p \in BusPercents : update_progress(FirstJob, P(p))
  /\ UNCHANGED <<compressorVars, restVars, subVars, received, sub_calls, raise_passed>>

HistoryNext == Hs_Produce \/ A_Dispatch

SpecHistory == BusInit /\ [][HistoryNext]_vars

\* ============================================= the profile registry on its own

\* the settings and profiles clients try to add
CandidateSettings ==
  {CompressionSettings(c, 30, "medium", "main") : c \in {18, 28, 52}}
    \cup {CompressionSettings(28, 0, "medium", "main")}
CandidateProfiles ==
  {ActivityCompressionProfile(h, m, CompressionSettings(28, 30, "medium", "main"),
                              CompressionSettings(30, 15, "fast", "baseline")) :
     h \in CandidateSettings, m \in CandidateSettings}

RegistryOnlyInit ==
  /\ CompressorInit({"ok"}, "app", "r_start", 0)
  /\ TrackerInit
  /\ subscribers = [j \in JobIds |-> <<>>]
  /\ global_subscribers = <<>>
  /\ source = ClosedSource
  /\ analysis = NoAnalysis
  /\ RegistryInit
  /\ LockInit
  /\ SideIdle

RegistryNext ==
  \/ \E n \in CustomNames, pr \in CandidateProfiles : Reg_CreateCustom(n, pr)
  \/ \E t \in ProfileTypes, n \in CustomNames \cup {NoName} : Reg_GetProfile(t, n)

SpecRegistry == RegistryOnlyInit /\ [][RegistryNext]_vars

\* update requests for a job in any stored status
RequestsInit ==
  /\ BaseIdle
  /\ source = ClosedSource
  /\ analysis = NoAnalysis
  /\ RegistryInit
  /\ LockInit
  /\ RequestInit
  /\ DetectorIdle
  /\ SpeedIdle
  /\ NotifyIdle

RequestsNext ==
  \E p \in JobPriority \cup {"none"}, v \in JobStatus \cup {"none"} : Up_Request(p, v)

SpecRequests == RequestsInit /\ [][RequestsNext]_vars

\* one detector, as AdaptiveCompressor.__init__ creates it, and two calls of
\* analyze_video on it (one after the other or at the same time from two
\* workers), each on a video of 1 to MaxFrames frames
Videos == UNION {[1..n -> Scenes] : n \in 1..MaxFrames}

DetectorInit ==
  /\ BaseIdle
  /\ source = ClosedSource
  /\ analysis = NoAnalysis
  /\ RegistryInit
  /\ LockInit
  /\ RequestIdle
  /\ bg_subtractor = None
  /\ run \in {[r \in AnalysisCalls |-> NoRun(IF r = "call1" THEN v1 ELSE v2)] :
               v1 \in Videos, v2 \in Videos}
  /\ overlap = FALSE
  /\ SpeedIdle
  /\ NotifyIdle

DetectorNext ==
  \/ \E r \in AnalysisCalls : Det_Open(r)
  \/ \E r \in AnalysisCalls : Det_Frame(r)
  \/ \E r \in AnalysisCalls : Det_Return(r)

SpecDetector == DetectorInit /\ [][DetectorNext]_vars

\* the history of one job: snapshots arrive as time passes
SpeedNext == Sp_Tick \/ \E p \in SnapshotPercents : Sp_AddSnapshot(p)

SpecSpeed == BusInit /\ [][SpeedNext]_vars

\* the tracker with callbacks that unsubscribe while they run: every callback
\* is subscribed at most once, to job1 or to all jobs
SubscriberLists ==
  {<<>>} \cup {<<c>> : c \in Callbacks}
         \cup UNION {{<<c, d>> : d \in Callbacks \ {c}} : c \in Callbacks}

NotifyInit ==
  /\ CompressorInit({"ok"}, "app", "r_start", 0)
  /\ TrackerInit
  /\ RestIdle
  /\ \E l \in SubscriberLists :
       subscribers = [j \in JobIds |-> IF j = "job1" THEN l ELSE <<>>]
  /\ global_subscribers \in SubscriberLists
  /\ \A k \in 1..Len(global_subscribers), m \in 1..Len(subscribers["job1"]) :
       global_subscribers[k] # subscribers["job1"][m]

NotifyNext ==
  \/ N_Produce \/ N_Begin \/ N_Next \/ N_EndOfList \/ N_Return
  \/ \E c \in Callbacks : N_UnsubscribeFromJob(c)
  \/ \E c \in Callbacks : N_UnsubscribeFromAll(c)

SpecNotify == NotifyInit /\ [][NotifyNext]_vars

\* ================================================================ properties

Last(q) == q[Len(q)]
Occurrences(l, c) == Cardinality({k \in 1..Len(l) : l[k] = c})
WorkerEnded(j) == worker[j].pc \in {"done", "dead"}

\* the edges of the state machine pending -> running -> {completed, failed,
\* cancelled}; "none" is the job before it is created
StatusEdge(a, b) ==
  \/ a = b
  \/ a = "none" /\ b = "pending"
  \/ a = "pending" /\ b = "running"
  \/ a = "running" /\ b \in Terminal

\* C1: the status of a job only moves along pending -> running ->
\* {completed, failed, cancelled}; once it is completed, failed or cancelled
\* it never changes again.
C1_TerminalIsFinal ==
  [][\A j \in AppJobs : StatusEdge(job[j].status, job'[j].status)]_vars

\* C2: once cancel_job has marked a running job as cancelled, the worker
\* starts no further segment encode and never starts the concatenation.
C2_NoWorkAfterCancel ==
  [][\A j \in AppJobs :
       ghost[j].cancel_marked =>
         /\ ~(worker[j].pc = "w_enc_start" /\ worker'[j].pc = "w_encoding")
         /\ ~(worker[j].pc = "w_concat_start" /\ worker'[j].pc = "w_concat")]_vars

\* C3: for a job that was cancelled while running, once its worker thread has
\* ended (and the cancel call has returned) no file exists at its output path.
C3_NoOutputAfterCancel ==
  \A j \in AppJobs :
    (ghost[j].cancel_marked /\ cancel[j].pc = "idle" /\ WorkerEnded(j))
      => ~files[j].output

\* C4: a cancel_job call that finds the job completed or failed returns False
\* at once and leaves the job's status and its output file as they are.
C4_CancelOfFinishedJob ==
  [][\A j \in AppJobs :
       (cancel'[j].count = cancel[j].count + 1
          /\ job[j].status \in {"completed", "failed"})
       => /\ cancel'[j].result = "false"
          /\ cancel'[j].pc = "idle"
          /\ job'[j] = job[j]
          /\ files'[j] = files[j]]_vars

\* a cancel of a completed job has returned False; the job is still completed
\* and its output file is still there
C4_Witness ==
  \E j \in AppJobs :
    /\ cancel[j].result = "false"
    /\ cancel[j].seen = "completed"
    /\ job[j].status = "completed"
    /\ files[j].output

\* C5: a terminal event (completed, error, cancelled) is the last event put
\* on the event queue for its job.
C5_TerminalEventIsLast ==
  \A k \in 1..Len(submitted) :
    submitted[k].type \in TerminalEvents =>
      \A m \in (k + 1)..Len(submitted) : submitted[m].job # submitted[k].job

\* C6: events of one job reach every subscriber, and the job's history, in
\* the order in which they were put on the queue (id = position of the put).
C6_PerJobOrder ==
  /\ \A c \in Callbacks : \A a, b \in 1..Len(received[c]) :
       (a < b /\ received[c][a].job = received[c][b].job)
         => received[c][a].id <= received[c][b].id
  /\ \A j \in JobIds : \A a, b \in 1..Len(hist_events[j]) :
       a < b => hist_events[j][a].id < hist_events[j][b].id

\* a callback has received two different events of one job, which are also in
\* the history of that job
C6_Witness ==
  \E c \in Callbacks : \E a, b \in 1..Len(received[c]) :
    /\ a < b
    /\ received[c][a].job = received[c][b].job
    /\ received[c][a].id # received[c][b].id
    /\ Len(hist_events[received[c][a].job]) >= 2

C8_CallbackCannotFailJob ==
  \A j \in AppJobs :
    (WorkerEnded(j) /\ ~ghost[j].step_failed /\ ~ghost[j].cancel_marked
       /\ cancel[j].pc = "idle")
      => /\ job[j].status = "completed"
         /\ files[j].output

\* C9: whichever callbacks raise while an event is dispatched, every callback
\* subscribed to the event's job or to all jobs is called with the event, once
\* per subscription, and the event is recorded in the job's history; this
\* holds of every dispatch, also of those after one in which a callback raised.
C9_RaiseDoesNotStopDispatch ==
  [][Len(event_queue') < Len(event_queue) =>
       LET e == Head(event_queue) IN
       /\ hist_events'[e.job] # <<>> /\ Last(hist_events'[e.job]) = e
       /\ \A c \in Callbacks :
            LET n == Occurrences(subscribers[e.job], c)
                       + Occurrences(global_subscribers, c)
            IN /\ Len(received'[c]) = Len(received[c]) + n
               /\ \A k \in (Len(received[c]) + 1)..Len(received'[c]) :
                    received'[c][k] = e]_vars

\* in the latest dispatch a callback raised with another callback due after
\* it, and the event of that dispatch is the last entry of its job's history
\* and the last event received by two or more subscriptions
C9_Witness ==
  /\ raise_passed
  /\ \E j \in JobIds :
       LET l == subscribers[j] \o global_subscribers IN
       /\ Len(l) >= 2
       /\ hist_events[j] # <<>>
       /\ Last(hist_events[j]).id = Len(submitted) - Len(event_queue)
       /\ \A k \in 1..Len(l) :
            received[l[k]] # <<>> /\ Last(received[l[k]]) = Last(hist_events[j])

\* C10: after a submission with a profile that is not registered has failed,
\* there is no job record for the job id and no progress event was emitted
\* for it.
C10_UnknownProfileLeavesNoTrace ==
  \A j \in AppJobs :
    (task[j].request = "unknown_profile" /\ task[j].pc \in {"r_done", "d_done"})
      => /\ job[j].status = "none"
         /\ j \notin active_jobs
         /\ j \notin in_history
         /\ \A k \in 1..Len(submitted) : submitted[k].job # j

\* the positions of the worker inside the with-block of
\* _compress_adaptive_segments
AdaptiveStage == {"w_seg_begin", "w_enc_start", "w_encoding", "w_p90",
                  "w_concat_start", "w_concat"}

\* C11: whenever the worker is outside the segment-encoding stage (before it,
\* or after it was left by success, by an encoder failure or by a
\* concatenation failure), the job has no temporary segment file and no
\* temporary segment directory.
C11_TempReclaimed ==
  \A j \in AppJobs :
    worker[j].pc \notin AdaptiveStage
      => ~files[j].temp_dir /\ files[j].segments = 0

\* the segment-encoding stage of a job with segments was left: by success
\* (the output was concatenated) or by a failure inside the stage
C11_Witness ==
  \E j \in AppJobs :
    /\ job[j].total_segments >= 2
    /\ job[j].current_segment = job[j].total_segments
    /\ worker[j].pc = "w_completed"
    /\ files[j].output
    /\ ~files[j].temp_dir

\* C12: the segments of a returned result partition the frame indices
\* [0, total_frames): the first starts at 0, each starts where the previous
\* one ends, the last ends at total_frames, and each holds a frame.
C12_SegmentsPartitionFrames ==
  analysis.pc = "returned" =>
    LET segs == analysis.activity_segments IN
    /\ segs # <<>>
    /\ segs[1].frame_start = 0
    /\ \A k \in 1..(Len(segs) - 1) : segs[k + 1].frame_start = segs[k].frame_end
    /\ segs[Len(segs)].frame_end = analysis.total_frames
    /\ \A k \in 1..Len(segs) : segs[k].frame_start < segs[k].frame_end

\* C13: the label of every segment of a returned result is the label that
\* the thresholds give to the segment's motion_intensity, the mean of the
\* intensities of its frames.
C13_LabelMatchesMean ==
  analysis.pc = "returned" =>
    \A k \in 1..Len(analysis.activity_segments) :
      LET seg == analysis.activity_segments[k] IN
      seg.activity_level = classify_activity(seg.intensity_sum, seg.intensity_n)

\* a returned result has a segment whose frames do not all have the
\* intensity of its first frame, so that its mean is not that intensity
C13_Witness ==
  /\ analysis.pc = "returned"
  /\ \E k \in 1..Len(analysis.activity_segments) :
       LET seg == analysis.activity_segments[k] IN
       /\ seg.intensity_n >= 2
       /\ seg.intensity_sum
            # seg.intensity_n * analysis.motion_timeline[seg.frame_start + 1]

\* periods p and q, half-open intervals <<start, end>>, share no point
Disjoint(p, q) == p[2] <= q[1] \/ q[2] <= p[1]

\* C14: the sleep periods and active periods derived from the segments are
\* pairwise disjoint, none ends before it starts, and every sleep period is at
\* least min_inactive_duration seconds long.
C14_PeriodsDisjoint ==
  analysis.pc = "returned" =>
    LET periods == analysis.sleep_periods \o analysis.active_periods IN
    /\ \A a, b \in 1..Len(periods) : a # b => Disjoint(periods[a], periods[b])
    /\ \A a \in 1..Len(periods) : periods[a][2] >= periods[a][1]
    /\ \A a \in 1..Len(analysis.sleep_periods) :
         analysis.sleep_periods[a][2] - analysis.sleep_periods[a][1]
           >= min_inactive_duration * analysis.fps

\* a returned result has a sleep period, an active period before an inactive
\* segment, and an inactive stretch too short to be a sleep period
C14_Witness ==
  /\ analysis.pc = "returned"
  /\ analysis.sleep_periods # <<>>
  /\ \E a \in 1..Len(analysis.active_periods) :
       analysis.active_periods[a][2] < Len(analysis.motion_timeline)
  /\ \E k \in 1..Len(analysis.activity_segments) :
       /\ analysis.activity_segments[k].activity_level = "inactive"
       /\ \A a \in 1..Len(analysis.sleep_periods) :
            analysis.activity_segments[k].start_time >= analysis.sleep_periods[a][2]
            \/ analysis.activity_segments[k].end_time <= analysis.sleep_periods[a][1]

\* the analysed video is 10 seconds long, all its frames were decoded and
\* every frame is classified inactive
TenSecondsInactive ==
  /\ analysis.pc = "returned"
  /\ analysis.total_frames = 10 * analysis.fps
  /\ Len(analysis.motion_timeline) = analysis.total_frames
  /\ \A k \in 1..Len(analysis.motion_timeline) :
       classify_activity(analysis.motion_timeline[k], 1) = "inactive"

C16_InsufficientFramesFail ==
  analysis.pc = "returned" => Len(analysis.motion_timeline) >= analysis.fps

\* C17: every profile the registry hands out, built-in or custom, passes the
\* validation (settings in range, CRF non-decreasing from high to inactive);
\* adding a custom profile that does not pass is rejected and leaves the
\* registry as it was.
C17_RegistryHoldsValidProfiles ==
  /\ retrieved.kind = "profile" => validate_profile(retrieved.profile)
  /\ \A n \in CustomNames :
       custom_profiles[n] # NoProfile => validate_profile(custom_profiles[n])

\* C18: the history of a job never holds more than 100 events or more than
\* 100 snapshots, and an entry added to a full history takes the place of
\* the oldest one: the rest moves up and the new entry is the last.
C18_HistoryBounded ==
  [][\A j \in JobIds :
       /\ Len(hist_events'[j]) <= max_snapshots
       /\ Len(hist_snapshots'[j]) <= max_snapshots
       /\ (hist_events'[j] # hist_events[j] /\ Len(hist_events[j]) = max_snapshots)
            => hist_events'[j] = Append(Tail(hist_events[j]), Head(event_queue))
       /\ (hist_snapshots'[j] # hist_snapshots[j]
             /\ Len(hist_snapshots[j]) = max_snapshots)
            => hist_snapshots'[j] =
                 Append(Tail(hist_snapshots[j]),
                        [pct |-> Head(event_queue).pct, id |-> Head(event_queue).id])]_vars

\* the history of a job is full and its oldest event and its oldest snapshot
\* have been dropped
C18_Witness ==
  \E j \in JobIds :
    /\ Len(hist_events[j]) = max_snapshots
    /\ Len(hist_snapshots[j]) = max_snapshots
    /\ hist_events[j][1].type # "started"
    /\ hist_snapshots[j][1].id > 2
    /\ Last(hist_events[j]).id = Len(submitted)

\* C19: no thread that called an operation of the tracker is blocked while a
\* subscriber callback is executing on the dispatcher thread.
C19_ProducersNeverWait ==
  \A t \in Producers : ~(producer[t].pc = "blocked" /\ dispatcher.in_callback)

\* C21: a requested status change that is not an edge of the graph
\* pending -> queued -> running -> {completed, failed, cancelled},
\* running <-> paused, failed -> pending is rejected with InvalidTransition.
TransitionGraph ==
  {<<"pending", "queued">>, <<"queued", "running">>, <<"running", "completed">>,
   <<"running", "failed">>, <<"running", "cancelled">>, <<"running", "paused">>,
   <<"paused", "running">>, <<"failed", "pending">>}

C21_IllegalTransitionRejected ==
  (update.request.status \in JobStatus
     /\ <<update.current, update.request.status>> \notin TransitionGraph)
    => update.request.outcome = "InvalidTransition"

Result(r) == [motion_timeline |-> run[r].motion_timeline,
              activity_segments |-> run[r].activity_segments,
              sleep_periods |-> run[r].sleep_periods,
              active_periods |-> run[r].active_periods]

\* the result of analyze_video on a detector that was never used
RECURSIVE AloneLoop(_, _, _, _, _)
AloneLoop(video, k, model, prev_gray, tl) ==
  IF k > Len(video) THEN tl
  ELSE AloneLoop(video, k + 1, bg_apply_model(model, video[k]), video[k],
                 Append(tl, calculate_motion_intensity(model, video[k], prev_gray)))

Alone(video) ==
  LET tl == AloneLoop(video, 1, None, None, <<>>)
      segs == generate_activity_segments(tl, 1)
      c == identify_sleep_wake_cycles(segs, 1)
  IN [motion_timeline |-> tl, activity_segments |-> segs,
      sleep_periods |-> c.sleep_periods, active_periods |-> c.active_periods]

\* C22: two analyses of the same input, run one after the other on the same
\* analyzer instance, return the same timeline, segments and periods.
C22_RerunIdentical ==
  (/\ \A r \in AnalysisCalls : run[r].pc = "returned"
   /\ ~overlap
   /\ run["call1"].video = run["call2"].video)
    => Result("call1") = Result("call2")

\* C29: the result of an analysis that ran at the same time as another one on
\* the same compressor equals the result of that analysis run alone.
C29_ConcurrentEqualsAlone ==
  \A r \in AnalysisCalls :
    (overlap /\ run[r].pc = "returned") => Result(r) = Alone(run[r].video)

\* C24: while motion analysis runs, the job's progress is the analyzer's
\* percent scaled by 0.2 (50 percent of the analysis is progress 10).
C24_AnalysisProgressScaled ==
  \A j \in AppJobs :
    (worker[j].pc = "w_analyze" /\ worker[j].apct > 0 /\ j \in active_jobs)
      => job[j].progress * 10 = P(worker[j].apct) * 2

Encoding(j) == worker[j].pc \in {"w_enc_start", "w_encoding"}
InSegmentLoop(j) == worker[j].pc \in {"w_seg_begin", "w_enc_start", "w_encoding", "w_p90"}

InSlice(j) ==
  /\ SegmentProgressStart(worker[j].i, job[j].total_segments) <= job[j].progress
  /\ job[j].progress <= SegmentProgressEnd(worker[j].i, job[j].total_segments)

C26_SpeedNonzeroFinite ==
  (/\ Len(snapshots) >= 2
   /\ \E a, b \in 1..Len(snapshots) :
        snapshots[a].percentage # snapshots[b].percentage)
    => (get_average_speed(snapshots).kind = "float"
        /\ get_average_speed(snapshots).num # 0)

\* C28: a job whose status is completed has its compressed size recorded and
\* its progress at 100.
C28_CompletedIsComplete ==
  \A j \in AppJobs :
    job[j].status = "completed"
      => (job[j].compressed_size_mb > 0 /\ job[j].progress = P(100))

\* C27: every job that start_compression_job started (status pending or
\* running) eventually has one of the statuses completed, failed, cancelled.
C27_JobEventuallyTerminal ==
  \A j \in AppJobs :
    (job[j].status \in {"pending", "running"}) ~> (job[j].status \in Terminal)

\* the failure handler itself failed (the callback raised in it) and the job
\* is failed, or the job was cancelled while its worker was still at work
C27_Witness ==
  \E j \in AppJobs :
    \/ worker[j].pc = "dead" /\ job[j].status = "failed"
    \/ ghost[j].cancel_marked /\ worker[j].pc = "done" /\ job[j].status \in Terminal

\* C30: when the dispatch of an event is over, every callback that is still
\* subscribed to the job of the event has received the event exactly once,
\* whatever the callbacks unsubscribed during the dispatch.
C30_RemainingSubscribersNotified ==
  notify.pc = "done"
    => \A k \in 1..Len(subscribers[notify.event.job]) :
         Occurrences(received[subscribers[notify.event.job][k]], notify.event) = 1

\* the segment of segs that holds frame i (0-based)
SegmentOf(segs, i) ==
  CHOOSE k \in 1..Len(segs) : segs[k].frame_start <= i /\ i < segs[k].frame_end

\* C23: in a returned result a segment starts at frame i exactly when the
\* label of frame i differs from the label of the segment of frame i - 1 or
\* that segment already holds fps * 10 frames; no segment holds more than
\* fps * 10 frames, and two adjacent segments have the same label only if the
\* earlier one holds exactly fps * 10 frames.
C23_SegmentBoundaries ==
  analysis.pc = "returned" =>
    LET tl == analysis.motion_timeline
        segs == analysis.activity_segments
        cap == analysis.fps * 10
    IN
    /\ \A i \in 1..(Len(tl) - 1) :
         LET cur == segs[SegmentOf(segs, i - 1)] IN
         (\E k \in 1..Len(segs) : segs[k].frame_start = i)
           <=> (classify_activity(tl[i + 1], 1) # cur.activity_level
                \/ i - cur.frame_start >= cap)
    /\ \A k \in 1..Len(segs) : segs[k].frame_end - segs[k].frame_start <= cap
    /\ \A k \in 1..(Len(segs) - 1) :
         segs[k].activity_level = segs[k + 1].activity_level
           => segs[k].frame_end - segs[k].frame_start = cap

\* a returned result in which a segment was closed because it was full and
\* another one because the label changed
C23_Witness ==
  /\ analysis.pc = "returned"
  /\ LET segs == analysis.activity_segments IN
     /\ \E k \in 1..(Len(segs) - 1) :
          /\ segs[k].activity_level = segs[k + 1].activity_level
          /\ segs[k].frame_end - segs[k].frame_start = analysis.fps * 10
     /\ \E k \in 1..(Len(segs) - 1) :
          /\ segs[k].activity_level # segs[k + 1].activity_level
          /\ segs[k].frame_end - segs[k].frame_start < analysis.fps * 10

\* C20: at every moment the number of jobs whose status is running is at most
\* the size of the worker pool, 1 by default.
C20_RunningWithinPool ==
  Cardinality({j \in JobIds : job[j].status = "running"}) <= active_workers

====
